---- MODULE Spec2Model ----
(***************************************************************************)
(* Model of health_data_generation.py: three record generators, the        *)
(* serialising uploader, the two storage helpers, and the main script that *)
(* runs a dev pass and a prod pass against one GCS bucket.                 *)
(*                                                                         *)
(* Two specifications:                                                     *)
(*   Spec     the main script (lines 223-250), one action per statement;   *)
(*   SpecGen  the functions called on their own with a record count and a  *)
(*            patient-identifier list drawn from bounded sets.             *)
(***************************************************************************)
EXTENDS Integers, Sequences, FiniteSets, TLC

VARIABLES
    pc,             \* Spec: index in MainScript of the next statement; SpecGen: 0
    exit_status,    \* "running", "completed" or "raised" (an unhandled exception)
    phase,          \* SpecGen: "call", "returned", "uploaded"; Spec: "main"
    bucket_exists,  \* whether BUCKET_NAME exists in the project
    objects,        \* blob name -> stored blob, the contents of the bucket
    prior,          \* blob names present when the run started
    console,        \* what create_bucket printed: "", "created", "exists", "error"
    done_steps,     \* the statements of the main script completed so far
    seen,           \* values fake.unique has handed out in this process
    dev_patients, dev_ehr, dev_claims,
    prod_patients, prod_ehr, prod_claims,
    num_records,    \* SpecGen: the record count of the call
    patient_ids,    \* SpecGen: the identifier list of the call
    result          \* SpecGen: what the call returned or raised

vars == <<pc, exit_status, phase, bucket_exists, objects, prior, console,
          done_steps, seen, dev_patients, dev_ehr, dev_claims,
          prod_patients, prod_ehr, prod_claims,
          num_records, patient_ids, result>>

(***************************************************************************)
(* Bounds of Spec: the record counts of the two passes, lines 41-42.  The   *)
(* source sets 5000 and 20000.  No statement of the script branches on a   *)
(* count or compares the two; what the script takes from them is the       *)
(* number of iterations of each generator's loop, which the bounds keep    *)
(* small, with the dev pass smaller than the prod pass.  Raised by one,    *)
(* every loop runs more than once in both passes.                          *)
(***************************************************************************)
DEV_RECORDS == 1

PROD_RECORDS == 2

(***************************************************************************)
(* Bounds of SpecGen: the generators are called with every record count in *)
(* 0..MaxRecords and every identifier list of length 0..MaxIds.            *)
(***************************************************************************)
MaxRecords == 2

MaxIds == 2

(***************************************************************************)
(* Constants of the source.                                                *)
(***************************************************************************)
DEV_PATH == "dev/"

PROD_PATH == "prod/"

\* Faker's UniqueProxy gives up after this many colliding draws.
MAX_UNIQUE_ATTEMPTS == 1000

\* A Python name before and after its assignment.
Unset == [set |-> FALSE]

Assigned(v) == [set |-> TRUE, value |-> v]

(***************************************************************************)
(* Python values.                                                          *)
(***************************************************************************)
Returned(v) == [ok |-> TRUE, value |-> v]

Raised(e) == [ok |-> FALSE, error |-> e]

PyStr(s) == [py |-> "str", str |-> s]

PyInt(n) == [py |-> "int", int |-> n]

PyFloat(x) == [py |-> "float", float |-> x]

\* A str whose text is the outcome of a draw.
PyStrOf(d) == [py |-> "str", drawn |-> d]

Range(s) == {s[i] : i \in DOMAIN s}

\* A choice that yields None on an empty sequence instead of raising.
random_choice_or_none(seq) ==
    IF Len(seq) = 0 THEN {Returned("None")}
    ELSE {Returned(seq[i]) : i \in 1..Len(seq)}

\* random.choice(seq): IndexError on an empty sequence, else any element.
random_choice(seq) ==
    IF Len(seq) = 0 THEN {Raised("IndexError")}
    ELSE {Returned(seq[i]) : i \in 1..Len(seq)}

(***************************************************************************)
(* Faker.  UUIDs are opaque and interchangeable: a draw of uuid4 either    *)
(* repeats a value already handed out or is a new value, and the first     *)
(* unused entry of UUIDS stands for the new one.  A new value differs from *)
(* every identifier the process holds, so the identifiers a caller passes  *)
(* in (GIVEN_IDS) are kept apart from UUIDS; a draw may also repeat one of *)
(* them, and fake.unique lets it through when it has not handed it out.    *)
(***************************************************************************)
UUIDS ==
    <<"uuid-01", "uuid-02", "uuid-03", "uuid-04", "uuid-05", "uuid-06",
      "uuid-07", "uuid-08", "uuid-09", "uuid-10", "uuid-11", "uuid-12",
      "uuid-13", "uuid-14", "uuid-15", "uuid-16", "uuid-17", "uuid-18">>

\* Identifiers handed to generate_ehr and generate_claims by their caller.
GIVEN_IDS == <<"pid-01", "pid-02", "pid-03", "pid-04">>

FirstUnused(used) ==
    LET free == {i \in 1..Len(UUIDS) : UUIDS[i] \notin used}
    IN {UUIDS[i] : i \in {j \in free : \A k \in free : j <= k}}

\* fake.uuid4(): any identifier.  It is one the process already holds, in
\* fake.unique or in the list a caller passed, or a new one.
uuid4(used) == used \cup Range(patient_ids) \cup FirstUnused(used)

\* fake.uuid4() in place of fake.unique.uuid4(): any candidate is emitted.
unique_uuid4_unchecked(used) ==
    {[ok |-> TRUE, value |-> c, seen |-> used \cup {c}] : c \in uuid4(used)}

\* fake.unique.uuid4(): redraw while the candidate was handed out before;
\* after MAX_UNIQUE_ATTEMPTS colliding candidates raise UniquenessException.
\* A run of MAX_UNIQUE_ATTEMPTS collisions exists iff some candidate collides.

unique_uuid4(used) ==
    {[ok |-> TRUE, value |-> c, seen |-> used \cup {c}] : c \in uuid4(used) \ used}
    \cup (IF MAX_UNIQUE_ATTEMPTS > 0 /\ uuid4(used) \cap used # {}
          THEN {[ok |-> FALSE, error |-> "UniquenessException", seen |-> used]}
          ELSE {})

(***************************************************************************)
(* The random fields no property reads.  Each is kept as the draw that     *)
(* produced it: the value stands for every value the draw can give, and a  *)
(* record holding it for every record whose fields lie in those ranges.    *)
(* The draws are independent of each other and of the identifiers.         *)
(***************************************************************************)
\* start_date and end_date, lines 45-46.
START_DATE == "2020-01-01"

END_DATE == "today"

\* random.randint(a, b): an int of a..b.
randint(a, b) == [draw |-> "random.randint", lo |-> a, hi |-> b]

\* round(random.uniform(a, b), ndigits): a float between the two ends, which
\* are given in units of 10^-ndigits.
round_uniform(a, b, ndigits) ==
    [draw |-> "round(random.uniform)", lo |-> a, hi |-> b, ndigits |-> ndigits]

\* random.choice of a non-empty list literal: one of its entries.
choice_of(seq) == [draw |-> "random.choice", of |-> seq]

\* fake.first_name(), fake.last_name(), fake.zipcode(): a str of the provider.
faker(provider) == [draw |-> provider]

\* fake.date_between(start_date, end_date): a date between the two.
date_between(start, end) ==
    [draw |-> "fake.date_between", start_date |-> start, end_date |-> end]

\* str(date): its ISO text.
DateStr(d) == [draw |-> "str", of |-> d]

\* f"{a}/{b}"
FString(a, sep, b) == [draw |-> "f-string", left |-> a, sep |-> sep, right |-> b]

(***************************************************************************)
(* pandas: a DataFrame built from a list of dicts.  Its columns are the    *)
(* keys of the dicts, so a frame built from no dicts has no columns.       *)
(***************************************************************************)
DataFrame(dicts, keys) ==
    [columns |-> IF Len(dicts) = 0 THEN <<>> ELSE keys, rows |-> dicts]

\* df[name].tolist()
ColumnToList(df, name) ==
    IF name \in Range(df.columns)
    THEN Returned([i \in 1..Len(df.rows) |-> df.rows[i][name]])
    ELSE Raised("KeyError")

PATIENT_COLUMNS ==
    <<"patient_id", "first_name", "last_name", "age", "gender", "zip_code",
      "insurance_type", "registration_date">>

\* One iteration of the loop of generate_patients, lines 113-131.
PatientStep(acc) ==
    IF ~acc.ok THEN {acc}
    ELSE UNION {
        IF ~u.ok THEN {[ok |-> FALSE, error |-> u.error, seen |-> u.seen]}
        ELSE {[ok |-> TRUE,
               value |-> Append(acc.value,
                   [patient_id |-> u.value,
                    first_name |-> faker("first_name"),
                    last_name |-> faker("last_name"),
                    age |-> randint(0, 100),
                    gender |-> choice_of(<<"Male", "Female">>),
                    zip_code |-> faker("zipcode"),
                    insurance_type |-> choice_of(<<"Private", "Medicare", "Medicaid">>),
                    registration_date |-> DateStr(date_between(START_DATE, END_DATE))]),
               seen |-> u.seen]}
        : u \in unique_uuid4(acc.seen)}

RECURSIVE PatientLoop(_, _)
PatientLoop(n, used) ==
    IF n <= 0 THEN {[ok |-> TRUE, value |-> <<>>, seen |-> used]}
    ELSE UNION {PatientStep(acc) : acc \in PatientLoop(n - 1, used)}

\* generate_patients(num_records): the outcomes of one call, each with the
\* state fake.unique is left in.
generate_patients(n, used) ==
    {IF o.ok
     THEN [ok |-> TRUE, value |-> DataFrame(o.value, PATIENT_COLUMNS), seen |-> o.seen]
     ELSE o : o \in PatientLoop(n, used)}


(***************************************************************************)
(* json.dumps of a dict, as the sequence of tokens of its text.  With the  *)
(* default indent=None the items are separated by ", " and ": " and the    *)
(* text holds no line break; a line break inside a string is escaped.      *)
(***************************************************************************)
Punct(p) == [kind |-> "punct", p |-> p]

Newline == [kind |-> "newline"]

JsonString(s) == [kind |-> "string", str |-> s]

JsonNumber(v) == [kind |-> "number", num |-> v]

\* A str is written between quotes with its line breaks escaped, a number
\* as its digits: either is one token without a line break.
JsonValue(v) ==
    IF v.py # "str" THEN JsonNumber(v)
    ELSE IF "str" \in DOMAIN v THEN JsonString(v.str)
    ELSE [kind |-> "string", drawn |-> v.drawn]

RECURSIVE JsonItemsIndented(_, _)
JsonItemsIndented(items, i) ==
    IF i > Len(items) THEN <<Newline, Punct("}")>>
    ELSE <<Newline, JsonString(items[i].key), Punct(": "), JsonValue(items[i].val)>>
         \o (IF i < Len(items) THEN <<Punct(",")>> ELSE <<>>)
         \o JsonItemsIndented(items, i + 1)

\* json.dumps(d, indent=2): one item per line.
json_dumps_indent(items) == <<Punct("{")>> \o JsonItemsIndented(items, 1)

RECURSIVE JsonItems(_, _)
JsonItems(items, i) ==
    IF i > Len(items) THEN <<Punct("}")>>
    ELSE <<JsonString(items[i].key), Punct(": "), JsonValue(items[i].val)>>
         \o (IF i < Len(items) THEN <<Punct(", ")>> ELSE <<>>)
         \o JsonItems(items, i + 1)

\* json.dumps(d), d a dict given as its items in insertion order.
json_dumps(items) == <<Punct("{")>> \o JsonItems(items, 1)

Item(k, v) == [key |-> k, val |-> v]

(***************************************************************************)
(* generate_ehr                                                            *)
(***************************************************************************)
EHR_DIAGNOSIS_CODES == <<"E11.9", "I10", "J45", "N18.9", "Z00.0">>

DIAGNOSIS_DESC ==
    [c \in {"E11.9", "I10", "J45", "N18.9", "Z00.0"} |->
        CASE c = "E11.9" -> "Type 2 diabetes mellitus"
          [] c = "I10" -> "Essential hypertension"
          [] c = "J45" -> "Asthma"
          [] c = "N18.9" -> "Chronic kidney disease"
          [] c = "Z00.0" -> "General medical exam"]

\* The dict literal of lines 146-152 without one of its entries.
DiagnosisLookupMissingEntry(code) ==
    IF code \in DOMAIN DIAGNOSIS_DESC \ {"Z00.0"}
    THEN Returned(DIAGNOSIS_DESC[code])
    ELSE Raised("KeyError")

\* {...}[diagnosis_code]: KeyError when the code has no entry.
DiagnosisLookup(code) ==
    IF code \in DOMAIN DIAGNOSIS_DESC
    THEN Returned(DIAGNOSIS_DESC[code])
    ELSE Raised("KeyError")

\* The codes of the choice list whose lookup returns: a draw of one of
\* them lets the iteration go on, a draw of another raises.
FoundCodes == SelectSeq(EHR_DIAGNOSIS_CODES, LAMBDA c : DiagnosisLookup(c).ok)

\* {...}[diagnosis_code] for a drawn code: entry k is the description of
\* entry k of the list the code is drawn from.
lookup_of(codes) ==
    [draw |-> "dict[diagnosis_code]",
     of |-> [k \in 1..Len(codes) |-> DiagnosisLookup(codes[k]).value]]

\* One iteration of the loop of generate_ehr, lines 143-168.  The drawn
\* diagnosis code is kept as the draw, and the description with it.
EhrStep(acc, ids) ==
    IF ~acc.ok THEN {acc}
    ELSE UNION {
        IF ~pid.ok THEN {Raised(pid.error)}
        ELSE {Raised(DiagnosisLookup(c).error) :
                c \in {d \in Range(EHR_DIAGNOSIS_CODES) : ~DiagnosisLookup(d).ok}}
             \cup
             (IF FoundCodes = <<>> THEN {}
              ELSE {Returned(Append(acc.value, json_dumps(<<
                     Item("patient_id", PyStr(pid.value)),
                     Item("visit_date",
                          PyStrOf(DateStr(date_between(START_DATE, END_DATE)))),
                     Item("diagnosis_code", PyStrOf(choice_of(FoundCodes))),
                     Item("diagnosis_desc", PyStrOf(lookup_of(FoundCodes))),
                     Item("heart_rate", PyInt(randint(60, 100))),
                     Item("blood_pressure",
                          PyStrOf(FString(randint(110, 140), "/", randint(70, 90)))),
                     Item("temperature", PyFloat(round_uniform(970, 995, 1)))>>)))})
        : pid \in random_choice(ids)}

RECURSIVE EhrLoop(_, _)
EhrLoop(n, ids) ==
    IF n <= 0 THEN {Returned(<<>>)}
    ELSE UNION {EhrStep(acc, ids) : acc \in EhrLoop(n - 1, ids)}

\* generate_ehr(num_records, patient_ids): the outcomes of one call.
generate_ehr(n, ids) == EhrLoop(n, ids)


(***************************************************************************)
(* pyarrow: Table.from_pandas(df, schema=schema).  The schema decides the  *)
(* columns, their order and their types: each name of the schema is looked *)
(* up in the frame (KeyError when the frame has no such column) and the    *)
(* column is converted to the declared type (an error when it cannot be).  *)
(***************************************************************************)
Field(n, t) == [name |-> n, type |-> t]

\* Lines 205-214.
CLAIMS_SCHEMA ==
    <<Field("claim_id", "string"),
      Field("patient_id", "string"),
      Field("provider_id", "string"),
      Field("service_date", "timestamp[ms]"),
      Field("diagnosis_code", "string"),
      Field("procedure_code", "string"),
      Field("claim_amount", "double"),
      Field("status", "string")>>

CLAIM_COLUMNS ==
    <<"claim_id", "patient_id", "provider_id", "service_date",
      "diagnosis_code", "procedure_code", "claim_amount", "status">>

\* Whether a Python value converts to an Arrow type.
Converts(v, type) ==
    \/ type = "string" /\ v.py = "str"
    \/ type = "timestamp[ms]" /\ v.py = "datetime"
    \/ type = "double" /\ v.py \in {"float", "int"}

\* The Arrow value of the declared type.
ArrowCell(v, type) ==
    CASE type = "string" ->
            IF "str" \in DOMAIN v THEN [type |-> type, str |-> v.str]
            ELSE [type |-> type, drawn |-> v.drawn]
      [] type = "timestamp[ms]" -> [type |-> type, date |-> v.date, time |-> v.time]
      [] type = "double" ->
            IF v.py = "int" THEN [type |-> type, double |-> v.int]
            ELSE [type |-> type, double |-> v.float]

SchemaNames(schema) == [i \in 1..Len(schema) |-> schema[i].name]

from_pandas(df, schema) ==
    IF \E i \in 1..Len(schema) : schema[i].name \notin Range(df.columns)
    THEN Raised("KeyError")
    ELSE IF \E r \in 1..Len(df.rows), i \in 1..Len(schema) :
                ~Converts(df.rows[r][schema[i].name], schema[i].type)
    THEN Raised("ArrowTypeError")
    ELSE Returned(
        [schema |-> schema,
         num_rows |-> Len(df.rows),
         rows |-> [r \in 1..Len(df.rows) |->
                     [n \in Range(SchemaNames(schema)) |->
                        LET f == CHOOSE i \in 1..Len(schema) : schema[i].name = n
                        IN ArrowCell(df.rows[r][n], schema[f].type)]]])

\* datetime.combine(service_date, datetime.min.time())
DatetimeCombine(d) == [py |-> "datetime", date |-> d, time |-> "00:00:00"]

(***************************************************************************)
(* generate_claims                                                         *)
(***************************************************************************)
\* One iteration of the loop of generate_claims, lines 182-202.
ClaimStep(acc, ids) ==
    IF ~acc.ok THEN {acc}
    ELSE UNION {
        IF ~cid.ok THEN {[ok |-> FALSE, error |-> cid.error, seen |-> cid.seen]}
        ELSE UNION {
            IF ~pid.ok THEN {[ok |-> FALSE, error |-> pid.error, seen |-> cid.seen]}
            ELSE UNION {
                IF ~prov.ok
                THEN {[ok |-> FALSE, error |-> prov.error, seen |-> prov.seen]}
                ELSE {[ok |-> TRUE,
                       value |-> Append(acc.value,
                           [claim_id |-> PyStr(cid.value),
                            patient_id |-> PyStr(pid.value),
                            provider_id |-> PyStr(prov.value),
                            service_date |->
                                DatetimeCombine(date_between(START_DATE, END_DATE)),
                            diagnosis_code |->
                                PyStrOf(choice_of(<<"E11.9", "I10", "J45", "N18.9">>)),
                            procedure_code |->
                                PyStrOf(choice_of(<<"99213", "80053", "83036", "93000">>)),
                            claim_amount |-> PyFloat(round_uniform(10000, 500000, 2)),
                            status |->
                                PyStrOf(choice_of(<<"Paid", "Denied", "Pending">>))]),
                       seen |-> prov.seen]}
                : prov \in unique_uuid4(cid.seen)}
            : pid \in random_choice(ids)}
        : cid \in unique_uuid4(acc.seen)}

RECURSIVE ClaimLoop(_, _, _)
ClaimLoop(n, ids, used) ==
    IF n <= 0 THEN {[ok |-> TRUE, value |-> <<>>, seen |-> used]}
    ELSE UNION {ClaimStep(acc, ids) : acc \in ClaimLoop(n - 1, ids, used)}

\* generate_claims(num_records, patient_ids): the outcomes of one call, each
\* with the state fake.unique is left in.
generate_claims(n, ids, used) ==
    {IF ~o.ok THEN o
     ELSE LET t == from_pandas(DataFrame(o.value, CLAIM_COLUMNS), CLAIMS_SCHEMA)
          IN IF t.ok THEN [ok |-> TRUE, value |-> t.value, seen |-> o.seen]
             ELSE [ok |-> FALSE, error |-> t.error, seen |-> o.seen]
     : o \in ClaimLoop(n, ids, used)}

(***************************************************************************)
(* upload_to_gcs: the blob each format stores.                             *)
(***************************************************************************)
RECURSIVE JoinLines(_)
\* "\n".join(data)
JoinLines(units) ==
    IF Len(units) = 0 THEN <<>>
    ELSE IF Len(units) = 1 THEN units[1]
    ELSE units[1] \o <<Newline>> \o JoinLines(Tail(units))

\* data.to_csv(index=False): the header line, then one line per row.
to_csv(df) ==
    <<df.columns>> \o
    [r \in 1..Len(df.rows) |-> [c \in 1..Len(df.columns) |-> df.rows[r][df.columns[c]]]]

\* The blob upload_to_gcs stores for a format, lines 88-101; a format that is
\* none of the three stores nothing.
Serialize(data, file_format) ==
    CASE file_format = "csv" ->
            Returned([content_type |-> "text/csv", lines |-> to_csv(data)])
      [] file_format = "json" ->
            Returned([content_type |-> "application/json", text |-> JoinLines(data)])
      [] file_format = "parquet" ->
            Returned([content_type |-> "application/octet-stream", table |-> data])
      [] OTHER -> Raised("no upload")


(***************************************************************************)
(* Google Cloud Storage.  A blob name is kept split at its folder prefix:  *)
(* <<"dev/", "ehr_data.json">> is the blob "dev/ehr_data.json", and        *)
(* <<"", "README.md">> a blob outside the two folders.                     *)
(***************************************************************************)
BlobName(path, filename) == <<path, filename>>

StartsWith(name, prefix) == name[1] = prefix

\* The blob names of the model, in the order list_blobs returns them.
BLOB_ORDER ==
    <<BlobName("", "README.md"),
      BlobName(DEV_PATH, "claims_data.parquet"),
      BlobName(DEV_PATH, "ehr_data.json"),
      BlobName(DEV_PATH, "old_export.csv"),
      BlobName(DEV_PATH, "patient_data.csv"),
      BlobName("", "devices/list.txt"),
      BlobName(PROD_PATH, "archive/part-0.json"),
      BlobName(PROD_PATH, "claims_data.parquet"),
      BlobName(PROD_PATH, "ehr_data.json"),
      BlobName(PROD_PATH, "patient_data.csv")>>

StaleBlob == [content_type |-> "stale"]

\* What an earlier run of the script leaves behind.
PreviousRunNames ==
    {BlobName(p, f) : p \in {DEV_PATH, PROD_PATH},
                      f \in {"patient_data.csv", "ehr_data.json", "claims_data.parquet"}}

ExtraNames ==
    {BlobName("", "README.md"), BlobName(DEV_PATH, "old_export.csv"),
     BlobName("", "devices/list.txt"), BlobName(PROD_PATH, "archive/part-0.json")}

\* The bucket contents a run may start from.
PriorLayouts ==
    {{}, PreviousRunNames, ExtraNames, PreviousRunNames \cup ExtraNames,
     {BlobName(DEV_PATH, "patient_data.csv"), BlobName(DEV_PATH, "old_export.csv")}}

\* bucket.list_blobs(prefix=path)
list_blobs(objs, path) ==
    SelectSeq(BLOB_ORDER, LAMBDA n : n \in DOMAIN objs /\ StartsWith(n, path))

Without(objs, names) == [n \in DOMAIN objs \ names |-> objs[n]]

Put(objs, name, blob) ==
    [n \in DOMAIN objs \cup {name} |-> IF n = name THEN blob ELSE objs[n]]

\* create_bucket() without its try/except.
create_bucket_uncaught(exists) ==
    {[raised |-> TRUE, console |-> "", bucket_exists |-> exists]}
    \cup {IF exists
          THEN [raised |-> FALSE, console |-> "exists", bucket_exists |-> TRUE]
          ELSE [raised |-> FALSE, console |-> "created", bucket_exists |-> TRUE]}

\* create_bucket(), lines 49-62: bucket.exists() or create_bucket() may raise,
\* and the except clause prints the error and returns.
create_bucket(exists) ==
    {[raised |-> FALSE, console |-> "error", bucket_exists |-> exists]}
    \cup {IF exists
          THEN [raised |-> FALSE, console |-> "exists", bucket_exists |-> TRUE]
          ELSE [raised |-> FALSE, console |-> "created", bucket_exists |-> TRUE]}

\* A clearing that deletes the three artifacts by name instead of listing
\* the folder.
empty_gcs_folder_by_name(path, exists, objs) ==
    IF ~exists THEN {[raised |-> TRUE, objects |-> objs]}
    ELSE {[raised |-> FALSE,
           objects |-> Without(objs, {BlobName(path, f) :
                          f \in {"patient_data.csv", "ehr_data.json",
                                 "claims_data.parquet"}})],
          [raised |-> TRUE, objects |-> objs]}

\* empty_gcs_folder(path), lines 65-76: the blobs under the prefix are
\* deleted in listing order; listing or a delete may raise, which leaves the
\* blobs deleted before it deleted.
empty_gcs_folder(path, exists, objs) ==
    IF ~exists THEN {[raised |-> TRUE, objects |-> objs]}
    ELSE LET blobs == list_blobs(objs, path)
             last == IF Len(blobs) = 0 THEN 0 ELSE Len(blobs) - 1
         IN {[raised |-> FALSE, objects |-> Without(objs, Range(blobs))]}
            \cup {[raised |-> TRUE,
                   objects |-> Without(objs, {blobs[i] : i \in 1..k})] : k \in 0..last}

\* upload_to_gcs(data, path, filename, file_format), lines 79-102: the upload
\* may raise, and does when the bucket does not exist.
upload_to_gcs(data, path, filename, file_format, exists, objs) ==
    LET blob == Serialize(data, file_format)
    IN IF ~blob.ok THEN {[raised |-> FALSE, objects |-> objs]}
       ELSE {[raised |-> TRUE, objects |-> objs]}
            \cup (IF exists
                  THEN {[raised |-> FALSE,
                         objects |-> Put(objs, BlobName(path, filename), blob.value)]}
                  ELSE {})

(***************************************************************************)
(* The main script, lines 223-250.                                         *)
(***************************************************************************)
Stmt(op, env, filename, file_format) ==
    [op |-> op, env |-> env, filename |-> filename, file_format |-> file_format]

Pass(env) ==
    <<Stmt("empty_gcs_folder", env, "", ""),
      Stmt("generate_patients", env, "", ""),
      Stmt("generate_ehr", env, "", ""),
      Stmt("generate_claims", env, "", ""),
      Stmt("upload_to_gcs", env, "patient_data.csv", "csv"),
      Stmt("upload_to_gcs", env, "ehr_data.json", "json"),
      Stmt("upload_to_gcs", env, "claims_data.parquet", "parquet")>>

\* A pass that clears its folder after its uploads instead of before.
PassClearingLast(env) ==
    <<Stmt("generate_patients", env, "", ""),
      Stmt("generate_ehr", env, "", ""),
      Stmt("generate_claims", env, "", ""),
      Stmt("upload_to_gcs", env, "patient_data.csv", "csv"),
      Stmt("upload_to_gcs", env, "ehr_data.json", "json"),
      Stmt("upload_to_gcs", env, "claims_data.parquet", "parquet"),
      Stmt("empty_gcs_folder", env, "", "")>>

MainScriptClearingLast ==
    <<Stmt("create_bucket", "", "", "")>>
    \o PassClearingLast("dev") \o PassClearingLast("prod")
    \o <<Stmt("print", "", "", "")>>

MainScript ==
    <<Stmt("create_bucket", "", "", "")>> \o Pass("dev") \o Pass("prod")
    \o <<Stmt("print", "", "", "")>>

PathOf(env) == IF env = "dev" THEN DEV_PATH ELSE PROD_PATH

RecordsOf(env) == IF env = "dev" THEN DEV_RECORDS ELSE PROD_RECORDS

\* A script whose statements are wrapped so that an exception is swallowed.
RunningPastFailure == exit_status \in {"running", "raised"}

\* The script runs on while no exception has escaped a statement.
Running == exit_status = "running"

At(op) == phase = "main" /\ Running /\ pc \in 1..Len(MainScript) /\ MainScript[pc].op = op

Advance ==
    /\ pc' = pc + 1
    /\ done_steps' = Append(done_steps, MainScript[pc])
    /\ exit_status' = "running"

Raise ==
    /\ exit_status' = "raised"
    /\ UNCHANGED <<pc, done_steps>>

harness_vars == <<phase, num_records, patient_ids, result>>

data_vars == <<dev_patients, dev_ehr, dev_claims, prod_patients, prod_ehr, prod_claims>>

PatientsOf(env) == IF env = "dev" THEN dev_patients ELSE prod_patients

EhrOf(env) == IF env = "dev" THEN dev_ehr ELSE prod_ehr

ClaimsOf(env) == IF env = "dev" THEN dev_claims ELSE prod_claims

CreateBucket ==
    /\ At("create_bucket")
    /\ \E o \in create_bucket(bucket_exists) :
          /\ bucket_exists' = o.bucket_exists
          /\ console' = o.console
          /\ IF o.raised THEN Raise ELSE Advance
    /\ UNCHANGED <<objects, prior, seen>>
    /\ UNCHANGED data_vars
    /\ UNCHANGED harness_vars

EmptyGcsFolder ==
    /\ At("empty_gcs_folder")
    /\ \E o \in empty_gcs_folder(PathOf(MainScript[pc].env), bucket_exists, objects) :
          /\ objects' = o.objects
          /\ IF o.raised THEN Raise ELSE Advance
    /\ UNCHANGED <<bucket_exists, prior, console, seen>>
    /\ UNCHANGED data_vars
    /\ UNCHANGED harness_vars

GeneratePatients ==
    /\ At("generate_patients")
    /\ LET env == MainScript[pc].env
       IN \E o \in generate_patients(RecordsOf(env), seen) :
             /\ seen' = o.seen
             /\ IF o.ok
                THEN /\ Advance
                     /\ IF env = "dev"
                        THEN dev_patients' = Assigned(o.value) /\ UNCHANGED prod_patients
                        ELSE prod_patients' = Assigned(o.value) /\ UNCHANGED dev_patients
                ELSE Raise /\ UNCHANGED <<dev_patients, prod_patients>>
    /\ UNCHANGED <<bucket_exists, objects, prior, console>>
    /\ UNCHANGED <<dev_ehr, dev_claims, prod_ehr, prod_claims>>
    /\ UNCHANGED harness_vars

\* <env>_patients['patient_id'].tolist()
PatientIdList(env) == ColumnToList(PatientsOf(env).value, "patient_id")

GenerateEhr ==
    /\ At("generate_ehr")
    /\ LET env == MainScript[pc].env
           ids == PatientIdList(env)
       IN IF ~ids.ok
          THEN Raise /\ UNCHANGED <<dev_ehr, prod_ehr>>
          ELSE \E o \in generate_ehr(RecordsOf(env), ids.value) :
                 IF o.ok
                 THEN /\ Advance
                      /\ IF env = "dev"
                         THEN dev_ehr' = Assigned(o.value) /\ UNCHANGED prod_ehr
                         ELSE prod_ehr' = Assigned(o.value) /\ UNCHANGED dev_ehr
                 ELSE Raise /\ UNCHANGED <<dev_ehr, prod_ehr>>
    /\ UNCHANGED <<bucket_exists, objects, prior, console, seen>>
    /\ UNCHANGED <<dev_patients, dev_claims, prod_patients, prod_claims>>
    /\ UNCHANGED harness_vars

GenerateClaims ==
    /\ At("generate_claims")
    /\ LET env == MainScript[pc].env
           ids == PatientIdList(env)
       IN IF ~ids.ok
          THEN Raise /\ UNCHANGED <<seen, dev_claims, prod_claims>>
          ELSE \E o \in generate_claims(RecordsOf(env), ids.value, seen) :
                 /\ seen' = o.seen
                 /\ IF o.ok
                    THEN /\ Advance
                         /\ IF env = "dev"
                            THEN dev_claims' = Assigned(o.value) /\ UNCHANGED prod_claims
                            ELSE prod_claims' = Assigned(o.value) /\ UNCHANGED dev_claims
                    ELSE Raise /\ UNCHANGED <<dev_claims, prod_claims>>
    /\ UNCHANGED <<bucket_exists, objects, prior, console>>
    /\ UNCHANGED <<dev_patients, dev_ehr, prod_patients, prod_ehr>>
    /\ UNCHANGED harness_vars

\* The first argument of the upload statement at pc.
UploadData(st) ==
    CASE st.file_format = "csv" -> PatientsOf(st.env).value
      [] st.file_format = "json" -> EhrOf(st.env).value
      [] st.file_format = "parquet" -> ClaimsOf(st.env).value

UploadToGcs ==
    /\ At("upload_to_gcs")
    /\ LET st == MainScript[pc]
       IN \E o \in upload_to_gcs(UploadData(st), PathOf(st.env), st.filename,
                                 st.file_format, bucket_exists, objects) :
             /\ objects' = o.objects
             /\ IF o.raised THEN Raise ELSE Advance
    /\ UNCHANGED <<bucket_exists, prior, console, seen>>
    /\ UNCHANGED data_vars
    /\ UNCHANGED harness_vars

\* The final print, line 250.
PrintCompleted ==
    /\ At("print")
    /\ pc' = pc + 1
    /\ done_steps' = Append(done_steps, MainScript[pc])
    /\ exit_status' = "completed"
    /\ UNCHANGED <<bucket_exists, objects, prior, console, seen>>
    /\ UNCHANGED data_vars
    /\ UNCHANGED harness_vars

Init ==
    /\ pc = 1
    /\ exit_status = "running"
    /\ phase = "main"
    /\ bucket_exists \in BOOLEAN
    /\ prior \in PriorLayouts
    /\ bucket_exists \/ prior = {}
    /\ objects = [n \in prior |-> StaleBlob]
    /\ console = ""
    /\ done_steps = <<>>
    /\ seen = {}
    /\ dev_patients = Unset /\ dev_ehr = Unset /\ dev_claims = Unset
    /\ prod_patients = Unset /\ prod_ehr = Unset /\ prod_claims = Unset
    /\ num_records = 0
    /\ patient_ids = <<>>
    /\ result = Unset

Next ==
    \/ CreateBucket
    \/ EmptyGcsFolder
    \/ GeneratePatients
    \/ GenerateEhr
    \/ GenerateClaims
    \/ UploadToGcs
    \/ PrintCompleted

Spec == Init /\ [][Next]_vars


(***************************************************************************)
(* SpecGen: one call of a generator with arguments drawn from bounded      *)
(* sets, followed by the upload of what it returned.                       *)
(***************************************************************************)
IdPool == {GIVEN_IDS[i] : i \in 1..MaxIds}

IdLists == UNION {[1..k -> IdPool] : k \in 0..MaxIds}

Outcome(o) == IF o.ok THEN Returned(o.value) ELSE Raised(o.error)

InitGen ==
    /\ pc = 0
    /\ exit_status = "running"
    /\ phase = "call"
    /\ bucket_exists = TRUE
    /\ prior = {}
    /\ objects = [n \in prior |-> StaleBlob]
    /\ console = ""
    /\ done_steps = <<>>
    /\ seen \in {{}, IdPool}
    /\ dev_patients = Unset /\ dev_ehr = Unset /\ dev_claims = Unset
    /\ prod_patients = Unset /\ prod_ehr = Unset /\ prod_claims = Unset
    /\ num_records \in 0..MaxRecords
    /\ patient_ids \in IdLists
    /\ result = Unset

gen_frame == <<pc, bucket_exists, objects, prior, console, done_steps,
               num_records, patient_ids>>

Finish(fn, o) ==
    /\ result' = [fn |-> fn, out |-> Outcome(o)]
    /\ phase' = "returned"
    /\ exit_status' = IF o.ok THEN "running" ELSE "raised"

CallGeneratePatients ==
    /\ phase = "call"
    /\ \E o \in generate_patients(num_records, seen) :
          seen' = o.seen /\ Finish("generate_patients", o)
    /\ UNCHANGED gen_frame
    /\ UNCHANGED data_vars

CallGenerateEhr ==
    /\ phase = "call"
    /\ \E o \in generate_ehr(num_records, patient_ids) :
          Finish("generate_ehr", o)
    /\ UNCHANGED seen
    /\ UNCHANGED gen_frame
    /\ UNCHANGED data_vars

CallGenerateClaims ==
    /\ phase = "call"
    /\ \E o \in generate_claims(num_records, patient_ids, seen) :
          seen' = o.seen /\ Finish("generate_claims", o)
    /\ UNCHANGED gen_frame
    /\ UNCHANGED data_vars

FormatOf(fn) ==
    CASE fn = "generate_patients" -> "csv"
      [] fn = "generate_ehr" -> "json"
      [] fn = "generate_claims" -> "parquet"

FilenameOf(fn) ==
    CASE fn = "generate_patients" -> "patient_data.csv"
      [] fn = "generate_ehr" -> "ehr_data.json"
      [] fn = "generate_claims" -> "claims_data.parquet"

CallUploadToGcs ==
    /\ phase = "returned"
    /\ Running
    /\ \E o \in upload_to_gcs(result.out.value, DEV_PATH, FilenameOf(result.fn),
                              FormatOf(result.fn), bucket_exists, objects) :
          /\ objects' = o.objects
          /\ exit_status' = IF o.raised THEN "raised" ELSE "running"
    /\ phase' = "uploaded"
    /\ UNCHANGED <<pc, bucket_exists, prior, console, done_steps, seen,
                   num_records, patient_ids, result>>
    /\ UNCHANGED data_vars

NextGen ==
    \/ CallGeneratePatients
    \/ CallGenerateEhr
    \/ CallGenerateClaims
    \/ CallUploadToGcs

SpecGen == InitGen /\ [][NextGen]_vars


(***************************************************************************)
(* Reading the outputs back.                                               *)
(***************************************************************************)
\* The value token that follows a key in the text of one JSON object.
JsonGet(unit, key) ==
    LET i == CHOOSE j \in 1..(Len(unit) - 2) :
                 /\ unit[j].kind = "string" /\ "str" \in DOMAIN unit[j]
                 /\ unit[j].str = key
                 /\ unit[j + 1].kind = "punct" /\ unit[j + 1].p = ": "
    IN unit[i + 2]

HasNewline(unit) == \E i \in 1..Len(unit) : unit[i].kind = "newline"

RECURSIVE SplitLines(_)
\* str.splitlines(): the lines of a text; a final line break ends the last
\* line and starts no new one, and the empty text has no line.
SplitLines(text) ==
    IF Len(text) = 0 THEN <<>>
    ELSE IF ~HasNewline(text) THEN <<text>>
    ELSE LET k == CHOOSE i \in 1..Len(text) :
                      /\ text[i].kind = "newline"
                      /\ \A j \in 1..(i - 1) : text[j].kind # "newline"
         IN <<SubSeq(text, 1, k - 1)>> \o SplitLines(SubSeq(text, k + 1, Len(text)))

Called(fn) == phase \in {"returned", "uploaded"} /\ result.fn = fn

ReturnedFrom(fn) == Called(fn) /\ result.out.ok

\* The call ended because fake.unique ran out of attempts.
GaveUpUnique == ~result.out.ok /\ result.out.error = "UniquenessException"

FolderNames(objs, path) == {n \in DOMAIN objs : StartsWith(n, path)}

ArtifactNames(path) ==
    {BlobName(path, "patient_data.csv"), BlobName(path, "ehr_data.json"),
     BlobName(path, "claims_data.parquet")}

(***************************************************************************)
(* C1 (SpecGen).  A call of generate_patients(N) that returns, returns     *)
(* exactly N records whose patient_id values are pairwise distinct, and no *)
(* record carries an identifier fake.unique had handed out before the call *)
(* (a colliding candidate is redrawn, never emitted).                      *)
(***************************************************************************)
C1_PatientsCountAndUnique ==
    [][(phase = "call" /\ phase' = "returned"
        /\ result'.fn = "generate_patients" /\ result'.out.ok)
       => LET rows == result'.out.value.rows
          IN /\ Len(rows) = num_records
             /\ \A i, j \in 1..Len(rows) :
                   i # j => rows[i].patient_id # rows[j].patient_id
             /\ \A i \in 1..Len(rows) : rows[i].patient_id \notin seen
             /\ seen' = seen \cup {rows[i].patient_id : i \in 1..Len(rows)}]_vars

\* generate_patients returned two records while fake.unique already held the
\* identifiers of IdPool: the two new ones are outside it.
C1_Witness ==
    /\ ReturnedFrom("generate_patients")
    /\ num_records = 2
    /\ Len(result.out.value.rows) = 2
    /\ IdPool \subseteq seen
    /\ Cardinality(seen) = Cardinality(IdPool) + 2

(***************************************************************************)
(* C2 (SpecGen), as claimed.  For a list of P >= 1 patient identifiers and *)
(* every N, generate_ehr and generate_claims each yield exactly N records, *)
(* and the patient_id of every record is a member of the list.             *)
(***************************************************************************)
C2_Original ==
    (Len(patient_ids) >= 1 /\ phase \in {"returned", "uploaded"}
     /\ result.fn \in {"generate_ehr", "generate_claims"} /\ ~GaveUpUnique)
    => /\ result.out.ok
       /\ IF result.fn = "generate_ehr"
          THEN /\ Len(result.out.value) = num_records
               /\ \A i \in 1..Len(result.out.value) :
                     JsonGet(result.out.value[i], "patient_id").str \in Range(patient_ids)
          ELSE /\ result.out.value.num_rows = num_records
               /\ \A i \in 1..Len(result.out.value.rows) :
                     result.out.value.rows[i].patient_id.str \in Range(patient_ids)

\* C2 restricted to N >= 1: the part of the claim the code keeps.
C2_PositiveCounts == num_records >= 1 => C2_Original

\* The patient_id values of a pass's patient frame, once it is assigned.
PassIds(env) ==
    IF PatientsOf(env).set
    THEN {PatientsOf(env).value.rows[i].patient_id :
             i \in 1..Len(PatientsOf(env).value.rows)}
    ELSE {}

\* C2 in the main script (Spec), where each pass generates N = P >= 1
\* records: the EHR records and the claims of a pass are N each and carry
\* only identifiers of that pass's patients, none of the other pass's.
C2_PassIntegrity ==
    \A env \in {"dev", "prod"} :
       LET other == IF env = "dev" THEN "prod" ELSE "dev"
       IN /\ PatientsOf(env).set => Cardinality(PassIds(env)) = RecordsOf(env)
          /\ PassIds(env) \cap PassIds(other) = {}
          /\ EhrOf(env).set
             => /\ Len(EhrOf(env).value) = RecordsOf(env)
                /\ \A i \in 1..Len(EhrOf(env).value) :
                      /\ JsonGet(EhrOf(env).value[i], "patient_id").str \in PassIds(env)
                      /\ JsonGet(EhrOf(env).value[i], "patient_id").str
                            \notin PassIds(other)
          /\ ClaimsOf(env).set
             => /\ ClaimsOf(env).value.num_rows = RecordsOf(env)
                /\ \A i \in 1..Len(ClaimsOf(env).value.rows) :
                      /\ ClaimsOf(env).value.rows[i].patient_id.str \in PassIds(env)
                      /\ ClaimsOf(env).value.rows[i].patient_id.str
                            \notin PassIds(other)

(***************************************************************************)
(* C3 (SpecGen), as claimed.  generate_ehr with an empty identifier list   *)
(* never returns normally, whatever the record count.                      *)
(***************************************************************************)
C3_Original ==
    (Called("generate_ehr") /\ patient_ids = <<>>) => ~result.out.ok

(***************************************************************************)
(* C3 (SpecGen), amended.  generate_ehr with an empty identifier list      *)
(* raises IndexError for every record count N >= 1 and returns the empty   *)
(* list for N = 0; it never returns a record.                              *)
(***************************************************************************)
C3_EmptyIdsRaiseForPositiveCount ==
    (Called("generate_ehr") /\ patient_ids = <<>>)
    => IF num_records >= 1
       THEN ~result.out.ok /\ result.out.error = "IndexError"
       ELSE result.out.ok /\ result.out.value = <<>>

C3_Witness ==
    /\ Called("generate_ehr")
    /\ patient_ids = <<>>
    /\ num_records = 2
    /\ ~result.out.ok
    /\ exit_status = "raised"


(***************************************************************************)
(* C4 (Spec).  When the script completes, whatever the bucket held at the  *)
(* start, dev/ and prod/ each hold exactly patient_data.csv, ehr_data.json *)
(* and claims_data.parquet, all three written by this run, and the blobs   *)
(* outside the two folders are untouched; a run that starts from the       *)
(* output of an earlier run ends with the same blob names.                 *)
(***************************************************************************)
C4_ExactlyThreeArtifactsPerFolder ==
    exit_status = "completed"
    => /\ FolderNames(objects, DEV_PATH) = ArtifactNames(DEV_PATH)
       /\ FolderNames(objects, PROD_PATH) = ArtifactNames(PROD_PATH)
       /\ \A n \in ArtifactNames(DEV_PATH) \cup ArtifactNames(PROD_PATH) :
             objects[n] # StaleBlob
       /\ DOMAIN objects =
             PreviousRunNames
             \cup {n \in prior : ~StartsWith(n, DEV_PATH) /\ ~StartsWith(n, PROD_PATH)}
       /\ (prior = PreviousRunNames => DOMAIN objects = prior)

\* A completed run that started from the output of an earlier run plus
\* stale blobs in both folders.
C4_Witness ==
    /\ exit_status = "completed"
    /\ prior = PreviousRunNames \cup ExtraNames
    /\ BlobName(DEV_PATH, "old_export.csv") \notin DOMAIN objects
    /\ BlobName(PROD_PATH, "archive/part-0.json") \notin DOMAIN objects

(***************************************************************************)
(* C5 (Spec).  Whatever create_bucket meets, an error of bucket.exists()   *)
(* or of create_bucket included, it returns normally: the script goes on   *)
(* to its next statement, the clearing of dev/, with no exception raised.  *)
(***************************************************************************)
C5_CreateBucketErrorNotFatal ==
    [][(phase = "main" /\ exit_status = "running" /\ pc = 1)
       => /\ MainScript[pc].op = "create_bucket"
          /\ exit_status' = "running"
          /\ pc' = 2
          /\ MainScript[pc'].op = "empty_gcs_folder"
          /\ MainScript[pc'].env = "dev"
          /\ objects' = objects
          /\ (console' = "error" => bucket_exists' = bucket_exists)]_vars

\* create_bucket printed an error and the script cleared dev/ and went on.
C5_Witness ==
    /\ console = "error"
    /\ Len(done_steps) >= 3
    /\ done_steps[2].op = "empty_gcs_folder"
    /\ dev_patients.set

(***************************************************************************)
(* C6 (Spec).  A statement other than create_bucket that raises ends the   *)
(* run there: the statement is not run again, no later statement runs, and *)
(* the bucket stays as the failing statement left it, with what was        *)
(* uploaded or deleted before kept as it is; so a failure in the prod pass *)
(* leaves the three dev artifacts of this run in place.                    *)
(***************************************************************************)
C6_FailureTerminatesRun ==
    [][/\ (exit_status = "raised"
           => UNCHANGED <<pc, exit_status, objects, bucket_exists, done_steps>>)
       /\ ((exit_status = "running" /\ exit_status' = "raised")
           => /\ pc' = pc
              /\ done_steps' = done_steps
              /\ MainScript[pc].op # "create_bucket"
              /\ DOMAIN objects' \subseteq DOMAIN objects
              /\ \A n \in DOMAIN objects' : objects'[n] = objects[n]
              /\ (MainScript[pc].op # "empty_gcs_folder" => objects' = objects)
              /\ (MainScript[pc].env = "prod"
                  => \A n \in ArtifactNames(DEV_PATH) :
                        n \in DOMAIN objects' /\ objects'[n] # StaleBlob))]_vars

\* The upload of prod/ehr_data.json raised: prod/patient_data.csv is
\* uploaded, the dev artifacts are in place, the run is over.
C6_Witness ==
    /\ phase = "main"
    /\ exit_status = "raised"
    /\ MainScript[pc].op = "upload_to_gcs"
    /\ MainScript[pc].env = "prod"
    /\ MainScript[pc].filename = "ehr_data.json"
    /\ BlobName(PROD_PATH, "patient_data.csv") \in DOMAIN objects
    /\ ArtifactNames(DEV_PATH) \subseteq DOMAIN objects


(***************************************************************************)
(* C7 (Spec).  The statements complete in one fixed order: create_bucket,  *)
(* then for dev and then for prod: clear the folder, generate patients,    *)
(* generate EHR records, generate claims, upload patient_data.csv,         *)
(* ehr_data.json and claims_data.parquet.  No dataset of a pass exists     *)
(* before the folder of the pass is cleared, no artifact of a pass is      *)
(* uploaded before its three datasets exist, nothing of the prod pass      *)
(* happens before the third dev upload, and a completed run has run both   *)
(* passes and no more.                                                     *)
(***************************************************************************)
ExpectedOrder ==
    <<<<"create_bucket", "", "">>,
      <<"empty_gcs_folder", "dev", "">>,
      <<"generate_patients", "dev", "">>,
      <<"generate_ehr", "dev", "">>,
      <<"generate_claims", "dev", "">>,
      <<"upload_to_gcs", "dev", "patient_data.csv">>,
      <<"upload_to_gcs", "dev", "ehr_data.json">>,
      <<"upload_to_gcs", "dev", "claims_data.parquet">>,
      <<"empty_gcs_folder", "prod", "">>,
      <<"generate_patients", "prod", "">>,
      <<"generate_ehr", "prod", "">>,
      <<"generate_claims", "prod", "">>,
      <<"upload_to_gcs", "prod", "patient_data.csv">>,
      <<"upload_to_gcs", "prod", "ehr_data.json">>,
      <<"upload_to_gcs", "prod", "claims_data.parquet">>,
      <<"print", "", "">>>>

Completed(k) == Len(done_steps) >= k

\* A blob of this run is stored under the name.
Uploaded(path, filename) ==
    /\ BlobName(path, filename) \in DOMAIN objects
    /\ objects[BlobName(path, filename)] # StaleBlob

C7_TwoPassesInOrder ==
    /\ Len(done_steps) <= Len(ExpectedOrder)
    /\ \A i \in 1..Len(done_steps) :
          <<done_steps[i].op, done_steps[i].env, done_steps[i].filename>>
             = ExpectedOrder[i]
    /\ (dev_patients.set <=> Completed(3))
    /\ (dev_ehr.set <=> Completed(4))
    /\ (dev_claims.set <=> Completed(5))
    /\ (Uploaded(DEV_PATH, "patient_data.csv") <=> Completed(6))
    /\ (Uploaded(DEV_PATH, "ehr_data.json") <=> Completed(7))
    /\ (Uploaded(DEV_PATH, "claims_data.parquet") <=> Completed(8))
    /\ (prod_patients.set <=> Completed(10))
    /\ (prod_ehr.set <=> Completed(11))
    /\ (prod_claims.set <=> Completed(12))
    /\ (Uploaded(PROD_PATH, "patient_data.csv") <=> Completed(13))
    /\ (Uploaded(PROD_PATH, "ehr_data.json") <=> Completed(14))
    /\ (Uploaded(PROD_PATH, "claims_data.parquet") <=> Completed(15))
    /\ (exit_status = "completed" <=> Completed(16))

\* Both passes ran to the end.
C7_Witness ==
    /\ exit_status = "completed"
    /\ Len(done_steps) = 16
    /\ Uploaded(PROD_PATH, "claims_data.parquet")

(***************************************************************************)
(* C8 (SpecGen).  For every K >= 0, no unit returned by generate_ehr holds *)
(* a line break, and the text upload_to_gcs stores for the K units in      *)
(* format 'json' has exactly K lines, the K units in order.                *)
(***************************************************************************)
C8_OneUnitPerLine ==
    ReturnedFrom("generate_ehr")
    => /\ Len(result.out.value) = num_records
       /\ \A i \in 1..Len(result.out.value) : ~HasNewline(result.out.value[i])
       /\ (phase = "uploaded" /\ exit_status = "running")
          => LET text == objects[BlobName(DEV_PATH, "ehr_data.json")].text
             IN /\ Len(SplitLines(text)) = num_records
                /\ SplitLines(text) = result.out.value

\* Two units were generated and uploaded.
C8_Witness ==
    /\ ReturnedFrom("generate_ehr")
    /\ phase = "uploaded"
    /\ exit_status = "running"
    /\ num_records = 2
    /\ Len(SplitLines(objects[BlobName(DEV_PATH, "ehr_data.json")].text)) = 2

(***************************************************************************)
(* C9 (SpecGen), as claimed.  For every record count N and every non-empty *)
(* identifier list, generate_claims returns a table of exactly N rows with *)
(* the 8 declared columns and every cell of the declared type.             *)
(***************************************************************************)
DeclaredColumns ==
    <<<<"claim_id", "string">>, <<"patient_id", "string">>,
      <<"provider_id", "string">>, <<"service_date", "timestamp[ms]">>,
      <<"diagnosis_code", "string">>, <<"procedure_code", "string">>,
      <<"claim_amount", "double">>, <<"status", "string">>>>

C9_Original ==
    (Called("generate_claims") /\ Len(patient_ids) >= 1 /\ ~GaveUpUnique)
    => /\ result.out.ok
       /\ result.out.value.num_rows = num_records
       /\ Len(result.out.value.rows) = num_records
       /\ Len(result.out.value.schema) = 8
       /\ \A c \in 1..8 :
             /\ <<result.out.value.schema[c].name, result.out.value.schema[c].type>>
                   = DeclaredColumns[c]
             /\ \A r \in 1..Len(result.out.value.rows) :
                   result.out.value.rows[r][DeclaredColumns[c][1]].type
                      = DeclaredColumns[c][2]

\* C9 restricted to N >= 1: the part of the claim the code keeps.
C9_PositiveCounts == num_records >= 1 => C9_Original

(***************************************************************************)
(* C10 (SpecGen).  Every code generate_ehr may draw has an entry in the    *)
(* lookup table, so generate_ehr never raises KeyError, and in every       *)
(* record it returns diagnosis_desc is the entry of its diagnosis_code.    *)
(***************************************************************************)
C10_DescriptionFromLookup ==
    Called("generate_ehr")
    => /\ (~result.out.ok => result.out.error # "KeyError")
       /\ result.out.ok
          => \A i \in 1..Len(result.out.value) :
                LET code == JsonGet(result.out.value[i], "diagnosis_code").drawn
                    desc == JsonGet(result.out.value[i], "diagnosis_desc").drawn
                IN /\ code.of = EHR_DIAGNOSIS_CODES
                   /\ Len(desc.of) = Len(code.of)
                   /\ \A k \in 1..Len(code.of) :
                         /\ code.of[k] \in DOMAIN DIAGNOSIS_DESC
                         /\ desc.of[k] = DIAGNOSIS_DESC[code.of[k]]
                   /\ \A j, k \in 1..Len(code.of) :
                         code.of[j] = code.of[k] => desc.of[j] = desc.of[k]

\* A returned record carries the last code of the choice list.
C10_Witness ==
    /\ ReturnedFrom("generate_ehr")
    /\ num_records = 2
    /\ \E i \in 1..Len(result.out.value), k \in 1..Len(EHR_DIAGNOSIS_CODES) :
          /\ JsonGet(result.out.value[i], "diagnosis_code").drawn.of[k] = "Z00.0"
          /\ JsonGet(result.out.value[i], "diagnosis_desc").drawn.of[k]
                = "General medical exam"

====
